---------------------------- MODULE Spec2Model ----------------------------
(***************************************************************************)
(* Space Station Explorer (src/game.js): the map builder, the asset        *)
(* loader, the keyboard listeners and the frame loop (update, draw).       *)
(*                                                                         *)
(* The script of game.js runs top to bottom without yielding: it builds    *)
(* the map (hub cross, four rooms, four connecting corridors), creates the *)
(* player at the hub, registers the listeners and calls loadAssets().      *)
(* From then on the browser delivers events one at a time: image load      *)
(* events, keydown and keyup events, resize events and animation frames.   *)
(***************************************************************************)
EXTENDS Integers, Sequences, FiniteSets

VARIABLES
  map,           \* map[y][x]: 0 floor, 1 wall, 2 console            (line 70)
  pc,            \* the statement of the build script that runs next
  consoleArgs,   \* consolePositions handed to each buildRoom call  (118-121)
  player,        \* [x, y]                                          (150-154)
  keys,          \* keys[e.key], for the four keys update reads      (157)
  assets,        \* the names whose image has fired its load event   (33, 53)
  assetsLoaded,  \* the counter of line 44
  resolved,      \* the promise of loadAssets is settled            (48, 56)
  rafPending,    \* callbacks of loop queued by requestAnimationFrame (232)
  canvas,        \* [width, height] of the canvas                    (21-22)
  screen,        \* where draw last put the player's tile, or NoDraw  (219-220)
  downs,         \* per key: keydown events received so far
  steps          \* per key: cell-steps the player has taken so far

vars == <<map, pc, consoleArgs, player, keys, assets, assetsLoaded, resolved,
          rafPending, canvas, screen, downs, steps>>

---------------------------------------------------------------------------
(* Program constants *)

TILE_W == 128
TILE_H == 64
MAP_W == 30
MAP_H == 30
Floor == 0
Wall == 1
Console == 2
speed == 1

hubX == MAP_W \div 2
hubY == MAP_H \div 2

assetNames == {"floor", "wall", "console", "astronaut"}
totalAssets == Cardinality(assetNames)

ArrowKeys == {"ArrowUp", "ArrowDown", "ArrowLeft", "ArrowRight"}

Rows == 0 .. MAP_H - 1
Cols == 0 .. MAP_W - 1

(* Bounds of the model *)

\* Console arguments tried for a room: the coordinate the code passes, moved
\* 0..MaxShift cells towards the hub (interior, then the border, then outside).
MaxShift == 5
\* Keydown events counted per key where downs and steps are kept.
MaxKeydowns == 2

---------------------------------------------------------------------------
(* Map builder *)

\* lines 70-77: every cell starts as floor
BlankMap == [y \in Rows |-> [x \in Cols |-> Floor]]

RoomNames == <<"north", "south", "east", "west">>
CorridorNames == <<"corrNorth", "corrSouth", "corrEast", "corrWest">>

\* lines 118-121: the rectangle of each buildRoom call
RoomRect(r) ==
  CASE r = "north" -> [x0 |-> hubX - 3,  y0 |-> 0,         x1 |-> hubX + 3,  y1 |-> 7]
    [] r = "south" -> [x0 |-> hubX - 3,  y0 |-> MAP_H - 8, x1 |-> hubX + 3,  y1 |-> MAP_H - 1]
    [] r = "east"  -> [x0 |-> MAP_W - 8, y0 |-> hubY - 3,  x1 |-> MAP_W - 1, y1 |-> hubY + 3]
    [] r = "west"  -> [x0 |-> 0,         y0 |-> hubY - 3,  x1 |-> 7,         y1 |-> hubY + 3]

\* lines 118-121: the console list of each buildRoom call, positions as <<x, y>>
CodeConsoles(r) ==
  CASE r = "north" -> << <<hubX, 3>> >>
    [] r = "south" -> << <<hubX, MAP_H - 4>> >>
    [] r = "east"  -> << <<MAP_W - 4, hubY>> >>
    [] r = "west"  -> << <<3, hubY>> >>

\* line 95 with the border let through (x0, x1, y0, y1 without the +1, -1)
InInteriorLoose(cx, cy, x0, y0, x1, y1) ==
  cx >= x0 /\ cx <= x1 /\ cy >= y0 /\ cy <= y1

\* line 95: the test a console position must pass
InInterior(cx, cy, x0, y0, x1, y1) ==
  cx >= x0 + 1 /\ cx <= x1 - 1 /\ cy >= y0 + 1 /\ cy <= y1 - 1

\* lines 92-98: the console loop of buildRoom
RECURSIVE PlaceConsoles(_, _, _, _, _, _)
PlaceConsoles(m, ps, x0, y0, x1, y1) ==
  IF ps = << >> THEN m
  ELSE LET cx == Head(ps)[1]
           cy == Head(ps)[2]
           m1 == IF InInterior(cx, cy, x0, y0, x1, y1)
                 THEN [m EXCEPT ![cy][cx] = Console]
                 ELSE m
       IN  PlaceConsoles(m1, Tail(ps), x0, y0, x1, y1)

\* lines 81-90: the stamping loop of buildRoom
StampRoom(m, x0, y0, x1, y1) ==
  [y \in Rows |-> [x \in Cols |->
     IF y \in y0 .. y1 /\ x \in x0 .. x1
     THEN IF y = y0 \/ y = y1 \/ x = x0 \/ x = x1 THEN Wall ELSE Floor
     ELSE m[y][x]]]

\* lines 80-99
buildRoom(m, x0, y0, x1, y1, consolePositions) ==
  PlaceConsoles(StampRoom(m, x0, y0, x1, y1), consolePositions, x0, y0, x1, y1)

\* lines 104-113: three full rows and three full columns through the hub
CarveCross(m) ==
  [y \in Rows |-> [x \in Cols |->
     IF y \in hubY - 1 .. hubY + 1 \/ x \in hubX - 1 .. hubX + 1
     THEN Floor ELSE m[y][x]]]

\* lines 125-129 starting one row early (y = 7)
CarveNorthLong(m) ==
  [y \in Rows |-> [x \in Cols |->
     IF y >= 7 /\ y < hubY - 1 /\ x \in hubX - 1 .. hubX + 1
     THEN Floor ELSE m[y][x]]]

\* lines 125-129
CarveNorth(m) ==
  [y \in Rows |-> [x \in Cols |->
     IF y >= 8 /\ y < hubY - 1 /\ x \in hubX - 1 .. hubX + 1
     THEN Floor ELSE m[y][x]]]

\* lines 131-135
CarveSouth(m) ==
  [y \in Rows |-> [x \in Cols |->
     IF y >= hubY + 2 /\ y < MAP_H - 8 /\ x \in hubX - 1 .. hubX + 1
     THEN Floor ELSE m[y][x]]]

\* lines 137-141
CarveEast(m) ==
  [y \in Rows |-> [x \in Cols |->
     IF x >= hubX + 2 /\ x < MAP_W - 8 /\ y \in hubY - 1 .. hubY + 1
     THEN Floor ELSE m[y][x]]]

\* lines 143-147
CarveWest(m) ==
  [y \in Rows |-> [x \in Cols |->
     IF x >= 8 /\ x < hubX - 1 /\ y \in hubY - 1 .. hubY + 1
     THEN Floor ELSE m[y][x]]]

CarveCorridor(c, m) ==
  CASE c = "corrNorth" -> CarveNorth(m)
    [] c = "corrSouth" -> CarveSouth(m)
    [] c = "corrEast"  -> CarveEast(m)
    [] c = "corrWest"  -> CarveWest(m)

\* The order of the statements of the script, lines 104-147
BuildOrder == <<"cross">> \o RoomNames \o CorridorNames \o <<"ready">>

NextPc(p) ==
  LET i == CHOOSE k \in 1 .. Len(BuildOrder) : BuildOrder[k] = p
  IN  BuildOrder[i + 1]

InRange(s, p) == \E i \in 1 .. Len(s) : s[i] = p

---------------------------------------------------------------------------
(* Movement: update, lines 165-187 *)

\* TryUp without the wall test of line 169
TryUpNoWall(m, p) ==
  LET newY == p.y - speed
  IN  IF newY >= 0 THEN [p EXCEPT !.y = newY] ELSE p

\* lines 168-169
TryUp(m, p) ==
  LET newY == p.y - speed
  IN  IF newY >= 0 /\ m[newY][p.x] # Wall THEN [p EXCEPT !.y = newY] ELSE p

\* lines 173-174
TryDown(m, p) ==
  LET newY == p.y + speed
  IN  IF newY < MAP_H /\ m[newY][p.x] # Wall THEN [p EXCEPT !.y = newY] ELSE p

\* lines 178-179
TryLeft(m, p) ==
  LET newX == p.x - speed
  IN  IF newX >= 0 /\ m[p.y][newX] # Wall THEN [p EXCEPT !.x = newX] ELSE p

\* TryRight taking a console for an obstacle (line 184 with === 0)
TryRightFloorOnly(m, p) ==
  LET newX == p.x + speed
  IN  IF newX < MAP_W /\ m[p.y][newX] = Floor THEN [p EXCEPT !.x = newX] ELSE p

\* lines 183-184
TryRight(m, p) ==
  LET newX == p.x + speed
  IN  IF newX < MAP_W /\ m[p.y][newX] # Wall THEN [p EXCEPT !.x = newX] ELSE p

\* update without the assignments of lines 170, 175, 180, 185
KeepKey(k, d) == k

\* lines 170, 175, 180, 185: keys[...] = false
ClearKey(k, d) == [k EXCEPT ![d] = FALSE]

\* lines 165-187: the four tests run in this order, each on the position the
\* previous one left.  The result holds the position after each test.
update(m, p, k) ==
  LET p1 == IF k["ArrowUp"]    THEN TryUp(m, p)     ELSE p
      k1 == IF k["ArrowUp"]    THEN ClearKey(k, "ArrowUp") ELSE k
      p2 == IF k1["ArrowDown"]  THEN TryDown(m, p1)  ELSE p1
      k2 == IF k1["ArrowDown"]  THEN ClearKey(k1, "ArrowDown") ELSE k1
      p3 == IF k2["ArrowLeft"]  THEN TryLeft(m, p2)  ELSE p2
      k3 == IF k2["ArrowLeft"]  THEN ClearKey(k2, "ArrowLeft") ELSE k2
      p4 == IF k3["ArrowRight"] THEN TryRight(m, p3) ELSE p3
      k4 == IF k3["ArrowRight"] THEN ClearKey(k3, "ArrowRight") ELSE k3
  IN  [player |-> p4, keys |-> k4,
       stepped |-> [d \in ArrowKeys |->
                      CASE d = "ArrowUp"    -> p1 # p
                        [] d = "ArrowDown"  -> p2 # p1
                        [] d = "ArrowLeft"  -> p3 # p2
                        [] d = "ArrowRight" -> p4 # p3]]

---------------------------------------------------------------------------
(* Rendering: the camera of draw, lines 189-227 *)

\* canvas.width / 2 and canvas.height / 2 are exact for the even sizes of
\* Viewports, so integer division stands for the division of the code.
Viewports ==
  { [width |-> 0,    height |-> 0],
    [width |-> 640,  height |-> 480],
    [width |-> 1920, height |-> 1080] }

\* line 192 without its last term
offsetXNoHalfTile(p, cv) == cv.width \div 2 - (p.x - p.y) * (TILE_W \div 2)

\* line 192
offsetX(p, cv) == cv.width \div 2 - (p.x - p.y) * (TILE_W \div 2) - TILE_W \div 2

\* line 193
offsetY(p, cv) == cv.height \div 2 - (p.x + p.y) * (TILE_H \div 2) - TILE_H

\* line 198 (tiles) and line 219 (the player)
isoX(x, y, ox) == (x - y) * (TILE_W \div 2) + ox

\* line 199 (tiles) and line 220 (the player)
isoY(x, y, oy) == (x + y) * (TILE_H \div 2) + oy

\* lines 219-220: playerScreenX, playerScreenY
draw(p, cv) ==
  << isoX(p.x, p.y, offsetX(p, cv)), isoY(p.x, p.y, offsetY(p, cv)) >>

NoDraw == << >>


---------------------------------------------------------------------------
(* State machine *)

NoKeys == [d \in ArrowKeys |-> FALSE]
ZeroCount == [d \in ArrowKeys |-> 0]
Hub == [x |-> hubX, y |-> hubY]
RoomIndex(r) == CHOOSE i \in 1 .. Len(RoomNames) : RoomNames[i] = r
CodeArgs == [i \in 1 .. Len(RoomNames) |-> CodeConsoles(RoomNames[i])]

\* One statement of the build script, lines 104-147
Statement(stmt, m, args) ==
  CASE stmt = "cross" -> CarveCross(m)
    [] InRange(RoomNames, stmt) ->
         LET r == RoomRect(stmt)
         IN  buildRoom(m, r.x0, r.y0, r.x1, r.y1, args[RoomIndex(stmt)])
    [] InRange(CorridorNames, stmt) -> CarveCorridor(stmt, m)

\* lines 104-147 from statement stmt to the end
RECURSIVE RunFrom(_, _, _)
RunFrom(stmt, m, args) ==
  IF stmt = "ready" THEN m
  ELSE RunFrom(NextPc(stmt), Statement(stmt, m, args), args)

\* The map once the script has built it with the arguments of the code
BuiltMap == RunFrom("cross", BlankMap, CodeArgs)

\* line 55 resolving on any load event
AllLoadedAny(n) == n >= 1

\* line 55
AllLoaded(n) == n = totalAssets

\* The state when the script starts to build the map (line 104), with the
\* console arguments args; the canvas has the size of the window (line 25).
Start(args) ==
  /\ map = BlankMap
  /\ pc = "cross"
  /\ consoleArgs = args
  /\ player = Hub
  /\ keys = NoKeys
  /\ assets = {}
  /\ assetsLoaded = 0
  /\ resolved = FALSE
  /\ rafPending = 0
  /\ canvas \in Viewports
  /\ screen = NoDraw
  /\ downs = ZeroCount
  /\ steps = ZeroCount

Init == Start(CodeArgs)

\* lines 104-113
HubCross ==
  /\ pc = "cross"
  /\ map' = CarveCross(map)
  /\ pc' = NextPc(pc)
  /\ UNCHANGED <<consoleArgs, player, keys, assets, assetsLoaded, resolved,
                 rafPending, canvas, screen>>

\* lines 118-121, one call each
BuildRoomStep ==
  /\ InRange(RoomNames, pc)
  /\ LET r == RoomRect(pc)
     IN  map' = buildRoom(map, r.x0, r.y0, r.x1, r.y1, consoleArgs[RoomIndex(pc)])
  /\ pc' = NextPc(pc)
  /\ UNCHANGED <<consoleArgs, player, keys, assets, assetsLoaded, resolved,
                 rafPending, canvas, screen>>

\* lines 125-147, one loop nest each
CorridorStep ==
  /\ InRange(CorridorNames, pc)
  /\ map' = CarveCorridor(pc, map)
  /\ pc' = NextPc(pc)
  /\ UNCHANGED <<consoleArgs, player, keys, assets, assetsLoaded, resolved,
                 rafPending, canvas, screen>>

\* lines 229-233: one call of loop.  It takes the place of the callback that
\* ran it (none for the call of line 237) and queues itself again.
loop(queued) ==
  LET u == update(map, player, keys)
  IN  /\ player' = u.player
      /\ keys' = u.keys
      /\ screen' = draw(u.player, canvas)
      /\ rafPending' = queued + 1

\* lines 55-57 and 236-238: this load event settles the promise, whose
\* then-callback calls loop.  Only the first resolve() settles a promise.
StartsLoop == AllLoaded(assetsLoaded + 1) /\ ~ resolved

\* lines 52-58 and 236-238: the load event of one image.  Each image is
\* requested once (line 51), so it fires at most once, and nothing makes it
\* fire at all.  The then-callback runs before the next event is delivered.
ImgLoad(key) ==
  /\ pc = "ready"
  /\ key \in assetNames \ assets
  /\ assets' = assets \cup {key}
  /\ assetsLoaded' = assetsLoaded + 1
  /\ IF StartsLoop
     THEN resolved' = TRUE /\ loop(rafPending)
     ELSE UNCHANGED <<resolved, player, keys, screen, rafPending>>
  /\ UNCHANGED <<map, pc, consoleArgs, canvas>>

\* lines 158-160
KeyDown(d) ==
  /\ pc = "ready"
  /\ keys' = [keys EXCEPT ![d] = TRUE]
  /\ UNCHANGED <<map, pc, consoleArgs, player, assets, assetsLoaded, resolved,
                 rafPending, canvas, screen>>

\* lines 161-163
KeyUp(d) ==
  /\ pc = "ready"
  /\ keys' = [keys EXCEPT ![d] = FALSE]
  /\ UNCHANGED <<map, pc, consoleArgs, player, assets, assetsLoaded, resolved,
                 rafPending, canvas, screen>>

\* lines 229-233: a queued callback of loop runs
Frame ==
  /\ pc = "ready"
  /\ rafPending > 0
  /\ loop(rafPending - 1)
  /\ UNCHANGED <<map, pc, consoleArgs, assets, assetsLoaded, resolved, canvas>>

\* lines 20-24: the resize listener.  Assigning canvas.width or canvas.height
\* clears the canvas, so nothing of the last draw is left on it.
Resize(cv) ==
  /\ pc = "ready"
  /\ cv # canvas
  /\ canvas' = cv
  /\ screen' = NoDraw
  /\ UNCHANGED <<map, pc, consoleArgs, player, keys, assets, assetsLoaded,
                 resolved, rafPending>>

(* The event counters: kept by SpecKeys, left alone elsewhere. *)

Uncounted == UNCHANGED <<downs, steps>>

CountDown(d) ==
  /\ downs[d] < MaxKeydowns
  /\ downs' = [downs EXCEPT ![d] = @ + 1]
  /\ UNCHANGED steps

CountSteps ==
  LET u == update(map, player, keys)
  IN  /\ steps' = [d \in ArrowKeys |->
                     IF u.stepped[d] THEN steps[d] + 1 ELSE steps[d]]
      /\ UNCHANGED downs

(* The program: the build script, then the events in any order. *)
Next ==
  \/ HubCross /\ Uncounted
  \/ BuildRoomStep /\ Uncounted
  \/ CorridorStep /\ Uncounted
  \/ \E key \in assetNames : ImgLoad(key) /\ Uncounted
  \/ \E d \in ArrowKeys : KeyDown(d) /\ Uncounted
  \/ \E d \in ArrowKeys : KeyUp(d) /\ Uncounted
  \/ Frame /\ Uncounted
  \/ \E cv \in Viewports : Resize(cv) /\ Uncounted

Spec == Init /\ [][Next]_vars

(* The program with its keydown events and cell-steps counted; the size of  *)
(* the window does not change.                                              *)
NextKeys ==
  \/ HubCross /\ Uncounted
  \/ BuildRoomStep /\ Uncounted
  \/ CorridorStep /\ Uncounted
  \/ \E key \in assetNames :
       ImgLoad(key) /\ IF StartsLoop THEN CountSteps ELSE Uncounted
  \/ \E d \in ArrowKeys : KeyDown(d) /\ CountDown(d)
  \/ \E d \in ArrowKeys : KeyUp(d) /\ Uncounted
  \/ Frame /\ CountSteps

SpecKeys == Init /\ [][NextKeys]_vars

(* The build script alone, on console arguments around those of the code:   *)
(* each room is handed one position, that of the code moved 0..MaxShift     *)
(* cells towards the hub.  The build reads nothing of the canvas, whose     *)
(* size is left at one value.                                               *)
Shifted(r, k) ==
  CASE r = "north" -> <<hubX, 3 + k>>
    [] r = "south" -> <<hubX, MAP_H - 4 - k>>
    [] r = "east"  -> <<MAP_W - 4 - k, hubY>>
    [] r = "west"  -> <<3 + k, hubY>>

ArgChoices ==
  { [i \in 1 .. Len(RoomNames) |-> << Shifted(RoomNames[i], sh[i]) >>] :
      sh \in [1 .. Len(RoomNames) -> 0 .. MaxShift] }

InitBuild ==
  \E args \in ArgChoices :
    Start(args) /\ canvas = [width |-> 640, height |-> 480]

NextBuild ==
  \/ HubCross /\ Uncounted
  \/ BuildRoomStep /\ Uncounted
  \/ CorridorStep /\ Uncounted

SpecBuild == InitBuild /\ [][NextBuild]_vars

(* The frame loop running on the built map, the player on any cell p. *)
Running(p) ==
  /\ map = BuiltMap
  /\ pc = "ready"
  /\ consoleArgs = CodeArgs
  /\ player = p
  /\ keys = NoKeys
  /\ assets = assetNames
  /\ assetsLoaded = totalAssets
  /\ resolved = TRUE
  /\ rafPending = 1
  /\ canvas \in Viewports
  /\ screen = NoDraw
  /\ downs = ZeroCount
  /\ steps = ZeroCount

Cells == {[x |-> cx, y |-> cy] : cx \in Cols, cy \in Rows}
NonWallCells == {c \in Cells : BuiltMap[c.y][c.x] # Wall}

(* update on every cell that is not a wall *)
InitMove == \E p \in NonWallCells : Running(p)

NextMove ==
  \/ \E d \in ArrowKeys : KeyDown(d) /\ Uncounted
  \/ \E d \in ArrowKeys : KeyUp(d) /\ Uncounted
  \/ Frame /\ Uncounted

SpecMove == InitMove /\ [][NextMove]_vars

(* draw for every cell and every size of the window *)
InitDraw == \E p \in Cells : Running(p)

NextDraw ==
  \/ Frame /\ Uncounted
  \/ \E cv \in Viewports : Resize(cv) /\ Uncounted

SpecDraw == InitDraw /\ [][NextDraw]_vars

---------------------------------------------------------------------------
(* Claims about the running game, checked under Spec *)

\* C1: after any sequence of keydown events, keyup events and frames, from
\* the player's start at the hub, the player's position is inside the grid
\* and the cell of the map there is not a wall.
C1_PlayerOnWalkableCell ==
  /\ player.x \in Cols
  /\ player.y \in Rows
  /\ map[player.y][player.x] # Wall

\* C1, witness: the player has walked up the north corridor and stands on
\* the cell under the north room's wall, with the frame loop running.
C1_Witness ==
  /\ pc = "ready"
  /\ rafPending > 0
  /\ player = [x |-> hubX, y |-> RoomRect("north").y1 + 1]
  /\ map[player.y - 1][player.x] = Wall

\* The cells a run of "up" inputs from the hub visits: the hub's column, at
\* or above the hub, with no wall between the cell and the hub.
UpRunFromHub(p) ==
  /\ p.x = hubX
  /\ p.y \in 0 .. hubY
  /\ \A y \in p.y .. hubY : map[y][hubX] # Wall

OnlyKey(d) == [e \in ArrowKeys |-> e = d]

\* C7: from the hub, repeated "up" inputs (one per frame) lower y by one
\* each, x unchanged, until the cell above is a wall; that wall cell is on
\* the north room's top border (y = y0), and from then on "up" changes
\* nothing.  Stated of every frame of such a run that has only "up" set.
C7_UpRunEndsAtTopBorder ==
  [][ (Frame /\ keys = OnlyKey("ArrowUp") /\ UpRunFromHub(player))
        => \/ /\ player.y > 0
              /\ map[player.y - 1][player.x] # Wall
              /\ player' = [player EXCEPT !.y = player.y - 1]
           \/ /\ player.y > 0
              /\ map[player.y - 1][player.x] = Wall
              /\ player.y - 1 = RoomRect("north").y0
              /\ player.x \in RoomRect("north").x0 .. RoomRect("north").x1
              /\ player' = player ]_vars

\* C8: the frame loop does not run before every image of assetNames has
\* fired its load event: while assetsLoaded < totalAssets no callback of
\* loop is queued, the player has not moved and nothing is drawn (keydown
\* events only set key flags); a loop that runs has all images loaded; and
\* once all are loaded exactly one chain of loop callbacks is running.
C8_LoopWaitsForAllAssets ==
  /\ assetsLoaded = Cardinality(assets)
  /\ assetsLoaded < totalAssets =>
       rafPending = 0 /\ player = Hub /\ screen = NoDraw /\ ~ resolved
  /\ rafPending > 0 => assets = assetNames
  /\ assetsLoaded = totalAssets => rafPending = 1 /\ resolved

\* C8, witness: all images but one have loaded, a keydown event has been
\* received meanwhile, and the game has not started.
C8_Witness ==
  /\ assetsLoaded = totalAssets - 1
  /\ keys["ArrowUp"]
  /\ player = Hub
  /\ rafPending = 0

---------------------------------------------------------------------------
(* Claim about update on every walkable cell, checked under SpecMove *)

\* The cell one step from p in the direction of key d
Candidate(p, d) ==
  CASE d = "ArrowUp"    -> [p EXCEPT !.y = p.y - 1]
    [] d = "ArrowDown"  -> [p EXCEPT !.y = p.y + 1]
    [] d = "ArrowLeft"  -> [p EXCEPT !.x = p.x - 1]
    [] d = "ArrowRight" -> [p EXCEPT !.x = p.x + 1]

\* C2: for every player position on a cell that is not a wall and each of
\* the four directions, a frame with only that direction's key set moves
\* the player to the adjacent cell in that direction if that cell is inside
\* the grid and not a wall, and leaves the position unchanged otherwise
\* (outside the grid included).
C2_MoveIffWalkable ==
  [][ \A d \in ArrowKeys :
        (Frame /\ keys = OnlyKey(d)) =>
          LET c == Candidate(player, d)
          IN  IF c.x \in Cols /\ c.y \in Rows /\ map[c.y][c.x] # Wall
              THEN player' = c
              ELSE player' = player ]_vars

\* C2, witness: a frame has run and the player stands on a console cell
\* with every key flag cleared.
C2_Witness ==
  /\ screen # NoDraw
  /\ keys = NoKeys
  /\ map[player.y][player.x] = Console

---------------------------------------------------------------------------
(* Claim about key events and cell-steps, checked under SpecKeys *)

\* C9: under any interleaving of keydown events, keyup events and frames,
\* the cell-steps the player has taken in a direction never exceed the
\* keydown events received for that direction's key.
C9_StepsNeverExceedKeydowns ==
  \A d \in ArrowKeys : steps[d] <= downs[d]

\* C9, witness: every counted keydown of "up" has produced its step, more
\* than one of them, and the flag is clear.
C9_Witness ==
  /\ downs["ArrowUp"] > 1
  /\ steps["ArrowUp"] = downs["ArrowUp"]
  /\ ~ keys["ArrowUp"]

---------------------------------------------------------------------------
(* Claim about the camera, checked under SpecDraw *)

\* C10: for every player position and every (even) viewport size, draw puts
\* the player's tile at (width/2 - TILE_W/2, height/2 - TILE_H), whatever
\* the player's position.
C10_PlayerTileCentred ==
  screen # NoDraw =>
    screen = << canvas.width \div 2 - TILE_W \div 2,
                canvas.height \div 2 - TILE_H >>

\* C10, witness: the player's tile has been drawn with the player in the
\* bottom left corner of the grid, where x - y is most negative.
C10_Witness ==
  /\ screen # NoDraw
  /\ player = [x |-> 0, y |-> MAP_H - 1]
  /\ canvas.width > 0

---------------------------------------------------------------------------
(* Claims about the built map, checked under SpecBuild *)

RoomSet == {RoomNames[i] : i \in 1 .. Len(RoomNames)}

StrictlyInside(c, r) ==
  r.x0 < c.x /\ c.x < r.x1 /\ r.y0 < c.y /\ c.y < r.y1

OnBorder(c, r) ==
  /\ c.x \in r.x0 .. r.x1
  /\ c.y \in r.y0 .. r.y1
  /\ (c.x = r.x0 \/ c.x = r.x1 \/ c.y = r.y0 \/ c.y = r.y1)

\* The cells the player can walk to from the cells of frontier on grid g
Moves(g, p) == {TryUp(g, p), TryDown(g, p), TryLeft(g, p), TryRight(g, p)}

RECURSIVE Walk(_, _, _)
Walk(g, seen, frontier) ==
  IF frontier = {} THEN seen
  ELSE LET nxt == (UNION {Moves(g, p) : p \in frontier}) \ seen
       IN  Walk(g, seen \cup nxt, nxt)

ReachableFromHub(g) == Walk(g, {Hub}, {Hub})

\* C3: in the built grid the hub cell is floor, and a player starting at the
\* hub can reach, by accepted moves, an interior cell of each of the four
\* rooms (a path of orthogonally adjacent cells that are not walls).
C3_HubReachesEveryRoom ==
  pc = "ready" =>
    /\ map[hubY][hubX] = Floor
    /\ \A r \in RoomSet :
         \E c \in ReachableFromHub(map) : StrictlyInside(c, RoomRect(r))

\* The builder of the claim: rooms first, hub cross second, connecting
\* corridors third, consoles last, each writing over what is there.
RECURSIVE RefRooms(_, _)
RefRooms(m, i) ==
  IF i > Len(RoomNames) THEN m
  ELSE LET r == RoomRect(RoomNames[i])
       IN  RefRooms(StampRoom(m, r.x0, r.y0, r.x1, r.y1), i + 1)

RECURSIVE RefConsoles(_, _, _)
RefConsoles(m, i, args) ==
  IF i > Len(RoomNames) THEN m
  ELSE LET r == RoomRect(RoomNames[i])
       IN  RefConsoles(PlaceConsoles(m, args[i], r.x0, r.y0, r.x1, r.y1),
                       i + 1, args)

RefBuild(args) ==
  RefConsoles(
    CarveWest(CarveEast(CarveSouth(CarveNorth(
      CarveCross(RefRooms(BlankMap, 1)))))),
    1, args)

\* C4: the grid the program builds equals, cell for cell, the grid of the
\* reference builder that applies rooms, hub cross, connecting corridors and
\* consoles in that order.
C4_BuiltInClaimedOrder ==
  pc = "ready" => map = RefBuild(consoleArgs)

NoConsoleMap ==
  RunFrom("cross", BlankMap, [i \in 1 .. Len(RoomNames) |-> << >>])

Pos(xy) == [x |-> xy[1], y |-> xy[2]]

\* A console position that some buildRoom call is handed and accepts
Accepted(c, args) ==
  \E i \in 1 .. Len(RoomNames) : \E k \in 1 .. Len(args[i]) :
    Pos(args[i][k]) = c /\ StrictlyInside(c, RoomRect(RoomNames[i]))

\* C6: a console coordinate handed to a room that lies strictly inside the
\* room's interior is a console cell of the built grid; one that lies
\* outside the interior is dropped, the cell keeping the floor or wall the
\* other build steps give it; so every console cell of the built grid is
\* strictly inside some room's interior.
C6_ConsolesOnlyInInterior ==
  pc = "ready" =>
    /\ \A i \in 1 .. Len(RoomNames) : \A k \in 1 .. Len(consoleArgs[i]) :
         LET c == Pos(consoleArgs[i][k])
         IN  IF StrictlyInside(c, RoomRect(RoomNames[i]))
             THEN map[c.y][c.x] = Console
             ELSE Accepted(c, consoleArgs) \/
                    /\ map[c.y][c.x] \in {Floor, Wall}
                    /\ map[c.y][c.x] = NoConsoleMap[c.y][c.x]
    /\ \A c \in Cells :
         map[c.y][c.x] = Console =>
           \E r \in RoomSet : StrictlyInside(c, RoomRect(r))

\* C6, witness: the map is built; the north room was handed a position of
\* its interior, now a console; the south room one on its border and the
\* east room one in the corridor, now a wall and a floor cell.
C6_Witness ==
  /\ pc = "ready"
  /\ consoleArgs[RoomIndex("north")] = CodeConsoles("north")
  /\ map[3][hubX] = Console
  /\ consoleArgs[RoomIndex("south")] = << <<hubX, RoomRect("south").y0>> >>
  /\ map[RoomRect("south").y0][hubX] = Wall
  /\ consoleArgs[RoomIndex("east")] = << <<RoomRect("east").x0 - 1, hubY>> >>
  /\ map[hubY][RoomRect("east").x0 - 1] = Floor

=============================================================================
